---- MODULE Spec2Model ----
(***************************************************************************)
(* Model of the Telegram secret resolver (src/src/utils/telegram-secret.ts),*)
(* of the webhook handler (src/src/index.ts) and of TelegramService        *)
(* (src/src/services/telegram.service.ts), at the granularity of           *)
(* JavaScript's cooperative scheduling: one action per synchronous run of  *)
(* code between two suspension points.                                     *)
(*                                                                         *)
(* Strings are sequences of one-character strings.  An optional value      *)
(* (undefined | T) is a sequence of length 0 or 1.                         *)
(***************************************************************************)
EXTENDS Integers, Sequences, FiniteSets, TLC

\* ------------------------------------------------------------------ bounds
MaxCalls == 2        \* getTelegramSecrets() calls per behaviour of Spec
MaxDataCalls == 2    \* getTelegramSecrets() calls per behaviour of SpecData
MaxGetterCalls == 2  \* getter calls per behaviour of SpecGetters
MaxInvocations == 2  \* handler invocations per behaviour of SpecHandler
MaxLiveCalls == 2    \* getTelegramSecrets() calls per behaviour of SpecLive
MaxServiceCalls == 4 \* calls of BrowserService methods per behaviour of SpecBrowser
MaxStations == 2     \* station items findAndPrintStationItems() returns at most

\* ---------------------------------------------------------------- optionals
None == <<>>
Some(x) == <<x>>

\* ------------------------------------------------------------------ strings
IsWhitespace(ch) == ch \in {" ", "\t", "\n"}

RECURSIVE TrimStart(_)
TrimStart(s) ==
  IF s # <<>> /\ IsWhitespace(Head(s)) THEN TrimStart(Tail(s)) ELSE s

RECURSIVE TrimEnd(_)
TrimEnd(s) ==
  IF s # <<>> /\ IsWhitespace(s[Len(s)])
  THEN TrimEnd(SubSeq(s, 1, Len(s) - 1))
  ELSE s

\* String.prototype.trim()
Trim(s) == TrimEnd(TrimStart(s))

LowerChar(ch) ==
  CASE ch = "P" -> "p" [] ch = "R" -> "r" [] ch = "O" -> "o" [] ch = "D" -> "d"
    [] ch = "U" -> "u" [] ch = "C" -> "c" [] ch = "T" -> "t" [] ch = "I" -> "i"
    [] ch = "N" -> "n" [] OTHER -> ch

\* String.prototype.toLowerCase()
ToLowerCase(s) == [i \in 1..Len(s) |-> LowerChar(s[i])]

\* JavaScript truthiness of (string | undefined): defined and not ""
Truthy(o) == o # None /\ o[1] # <<>>

\* --------------------------------------------------------- process.env values
StrProduction == <<"p", "r", "o", "d", "u", "c", "t", "i", "o", "n">>
StrProductionMixed == <<"P", "r", "o", "d", "u", "c", "t", "i", "o", "n">>
StrDev == <<"d", "e", "v">>

ArnValues == {None, Some(<<" ">>), Some(<<"a">>)}
WebhookValues == {None, Some(<<" ">>), Some(<<" ", "w">>)}
TokenValues == {None, Some(<<"t">>)}
NodeEnvValues == {None, Some(StrProductionMixed), Some(StrDev)}

EnvVars == {"TELEGRAM_SECRET_ARN", "TELEGRAM_WEBHOOK_SECRET", "TELEGRAM_BOT_TOKEN", "NODE_ENV"}

EnvValues(k) ==
  CASE k = "TELEGRAM_SECRET_ARN" -> ArnValues
    [] k = "TELEGRAM_WEBHOOK_SECRET" -> WebhookValues
    [] k = "TELEGRAM_BOT_TOKEN" -> TokenValues
    [] k = "NODE_ENV" -> NodeEnvValues

Envs == {e \in [EnvVars -> ArnValues \cup WebhookValues \cup TokenValues \cup NodeEnvValues] :
           \A k \in EnvVars : e[k] \in EnvValues(k)}

\* ------------------------------------------------------------ secret store
\* A JSON member value of the payload object.
MemberValues ==
  { [type |-> "number", str |-> <<>>],
    [type |-> "string", str |-> <<" ">>],
    [type |-> "string", str |-> <<" ", "t", " ">>] }

PayloadKeys == {"webhookSecret", "botToken"}

\* Objects with any subset of the two keys, and one with an additional key.
ObjectTexts ==
  { [syntax |-> "object", members |-> m] :
      m \in UNION { [K -> MemberValues] : K \in SUBSET PayloadKeys } }
    \cup { [syntax |-> "object",
            members |-> [k \in PayloadKeys \cup {"extra"} |->
                           [type |-> "string", str |-> <<"s">>]]] }

\* The texts the store may hand back as SecretString: "", text that is not
\* JSON ("{ not-json"), JSON for null, a boolean, a number, a string or an
\* array, and JSON objects.
PayloadTexts ==
  { [syntax |-> x, members |-> <<>>] :
      x \in {"empty", "invalid", "null", "number", "string", "array"} }
    \cup ObjectTexts

StoreErrorNames == {"ResourceNotFoundException", "TimeoutError"}

\* Outcomes of sm.send(cmd): resolves with {SecretString?} or rejects.
StoreResponses ==
  { [rejected |-> FALSE, SecretString |-> ss, name |-> ""] :
      ss \in {None} \cup { Some(p) : p \in PayloadTexts } }
    \cup { [rejected |-> TRUE, SecretString |-> None, name |-> n] : n \in StoreErrorNames }

\* The representative configurations and store answers used where the
\* interleaving, not the data, is what is explored: two different good
\* payloads, an absent SecretString, text that is not JSON, a failed call.
CoreEnvValues(k) ==
  CASE k = "TELEGRAM_SECRET_ARN" -> {None, Some(<<"a">>)}
    [] k = "TELEGRAM_WEBHOOK_SECRET" -> {None, Some(<<" ", "w">>)}
    [] k = "TELEGRAM_BOT_TOKEN" -> {None, Some(<<"t">>)}
    [] k = "NODE_ENV" -> {Some(StrProductionMixed), Some(StrDev)}

CoreEnvs == {e \in Envs : \A k \in EnvVars : e[k] \in CoreEnvValues(k)}

GoodText(w, t) ==
  [syntax |-> "object",
   members |-> [k \in PayloadKeys |->
                  [type |-> "string", str |-> IF k = "webhookSecret" THEN w ELSE t]]]

CoreResponses ==
  { [rejected |-> FALSE, SecretString |-> ss, name |-> ""] :
      ss \in { None,
               Some([syntax |-> "invalid", members |-> <<>>]),
               Some(GoodText(<<"s">>, <<" ", "t", " ">>)),
               Some(GoodText(<<" ", "t", " ">>, <<"s">>)) } }
    \cup { [rejected |-> TRUE, SecretString |-> None, name |-> "TimeoutError"] }

\* ------------------------------------------------------------------ errors
Err(name, message) == [name |-> name, message |-> message]

Fulfilled(v) == [settled |-> TRUE, value |-> Some(v), error |-> None]
Rejected(e) == [settled |-> TRUE, value |-> None, error |-> Some(e)]
Pending == [settled |-> FALSE, value |-> None, error |-> None]

\* JSON.parse: throws on text that is not JSON, otherwise yields the value.
JsonParseThrows(text) == text.syntax = "invalid"

\* `!parsed || typeof parsed !== 'object'` for the parsed value of `text`:
\* null is falsy, typeof is 'boolean', 'number' or 'string' for the scalars,
\* and 'object' for arrays and objects.
NotAnObject(text) == text.syntax \in {"null", "boolean", "number", "string"}

\* `typeof shape[key] === 'string' ? shape[key].trim() : ''`
\* (an array has neither member, so both read as undefined).
FieldOf(text, key) ==
  IF text.syntax = "object" /\ key \in DOMAIN text.members
       /\ text.members[key].type = "string"
  THEN Trim(text.members[key].str)
  ELSE <<>>

\* A bug for comparison: only webhookSecret is required, a missing botToken
\* is let through as ''.
ParseSecretStringLenient(text) ==
  IF JsonParseThrows(text)
  THEN Rejected(Err("SecretMalformedError", "Failed to parse secret JSON"))
  ELSE IF NotAnObject(text)
  THEN Rejected(Err("SecretMalformedError", "Secret JSON is not an object"))
  ELSE IF Len(FieldOf(text, "webhookSecret")) = 0
  THEN Rejected(Err("SecretMalformedError", "webhookSecret missing or empty"))
  ELSE Fulfilled([webhookSecret |-> FieldOf(text, "webhookSecret"),
                  botToken |-> FieldOf(text, "botToken")])

\* A bug for comparison: the parsed object is returned with its fields
\* trimmed, whatever its keys are.
ParseSecretStringSpread(text) ==
  IF JsonParseThrows(text)
  THEN Rejected(Err("SecretMalformedError", "Failed to parse secret JSON"))
  ELSE IF NotAnObject(text)
  THEN Rejected(Err("SecretMalformedError", "Secret JSON is not an object"))
  ELSE IF Len(FieldOf(text, "webhookSecret")) = 0
  THEN Rejected(Err("SecretMalformedError", "webhookSecret missing or empty"))
  ELSE IF Len(FieldOf(text, "botToken")) = 0
  THEN Rejected(Err("SecretMalformedError", "botToken missing or empty"))
  ELSE Fulfilled([k \in DOMAIN text.members |-> FieldOf(text, k)])

\* parseSecretString: the outcome of parsing a non-empty SecretString.
ParseSecretString(text) ==
  IF JsonParseThrows(text)
  THEN Rejected(Err("SecretMalformedError", "Failed to parse secret JSON"))
  ELSE IF NotAnObject(text)
  THEN Rejected(Err("SecretMalformedError", "Secret JSON is not an object"))
  ELSE LET webhookSecret == FieldOf(text, "webhookSecret")
           botToken == FieldOf(text, "botToken")
       IN IF Len(webhookSecret) = 0
          THEN Rejected(Err("SecretMalformedError", "webhookSecret missing or empty"))
          ELSE IF Len(botToken) = 0
          THEN Rejected(Err("SecretMalformedError", "botToken missing or empty"))
          ELSE Fulfilled([webhookSecret |-> webhookSecret, botToken |-> botToken])

\* A bug for comparison: the comparison without toLowerCase().
IsProductionCaseSensitive(e) ==
  (IF e["NODE_ENV"] = None THEN <<>> ELSE e["NODE_ENV"][1]) = StrProduction

\* isProduction()
IsProduction(e) ==
  ToLowerCase(IF e["NODE_ENV"] = None THEN <<>> ELSE e["NODE_ENV"][1]) = StrProduction

\* `arn && arn.trim().length > 0`
ArnConfigured(e) ==
  LET arn == e["TELEGRAM_SECRET_ARN"]
  IN Truthy(arn) /\ Len(Trim(arn[1])) > 0

\* `fallbackWebhook && fallbackWebhook.trim().length > 0 && fallbackToken && ...`
FallbacksConfigured(e) ==
  LET fallbackWebhook == e["TELEGRAM_WEBHOOK_SECRET"]
      fallbackToken == e["TELEGRAM_BOT_TOKEN"]
  IN /\ Truthy(fallbackWebhook) /\ Len(Trim(fallbackWebhook[1])) > 0
     /\ Truthy(fallbackToken) /\ Len(Trim(fallbackToken[1])) > 0

\* A bug for comparison: one fallback value alone is enough, the other is ''.
ExecLocalLone(e) ==
  LET w == e["TELEGRAM_WEBHOOK_SECRET"]
      t == e["TELEGRAM_BOT_TOKEN"]
      present(o) == Truthy(o) /\ Len(Trim(o[1])) > 0
  IN IF present(w) \/ present(t)
     THEN Fulfilled([webhookSecret |-> IF present(w) THEN w[1] ELSE <<>>,
                     botToken |-> IF present(t) THEN t[1] ELSE <<>>])
     ELSE IF IsProduction(e)
     THEN Rejected(Err("ConfigError", "TELEGRAM_SECRET_ARN is required in production"))
     ELSE Rejected(Err("SecretNotFoundError", "Telegram secrets not fully configured"))

\* A bug for comparison: the fallback values are returned trimmed.
ExecLocalTrimmed(e) ==
  IF FallbacksConfigured(e)
  THEN Fulfilled([webhookSecret |-> Trim(e["TELEGRAM_WEBHOOK_SECRET"][1]),
                  botToken |-> Trim(e["TELEGRAM_BOT_TOKEN"][1])])
  ELSE IF IsProduction(e)
  THEN Rejected(Err("ConfigError", "TELEGRAM_SECRET_ARN is required in production"))
  ELSE Rejected(Err("SecretNotFoundError", "Telegram secrets not fully configured"))

\* exec(), the part that runs without suspending when no ARN is configured:
\* the local fallbacks, else ConfigError / SecretNotFoundError.
ExecLocal(e) ==
  IF FallbacksConfigured(e)
  THEN Fulfilled([webhookSecret |-> e["TELEGRAM_WEBHOOK_SECRET"][1],
                  botToken |-> e["TELEGRAM_BOT_TOKEN"][1]])
  ELSE IF IsProduction(e)
  THEN Rejected(Err("ConfigError", "TELEGRAM_SECRET_ARN is required in production"))
  ELSE Rejected(Err("SecretNotFoundError", "Telegram secrets not fully configured"))

\* exec(), the part after `await sm.send(cmd)`: a rejection of send propagates,
\* a missing or empty SecretString is SecretNotFoundError, else the parse.
ExecAfterSend(resp) ==
  IF resp.rejected
  THEN Rejected(Err(resp.name, "store call failed"))
  ELSE IF resp.SecretString = None \/ resp.SecretString[1].syntax = "empty"
  THEN Rejected(Err("SecretNotFoundError", "SecretString is empty"))
  ELSE ParseSecretString(resp.SecretString[1])

\* -------------------------------------------------------- TelegramService
\* What comes back for one https.request: a response with a status code and
\* a body, an 'error' event, or a 'timeout' event.
HttpStatuses == {200, 400, 404, 500, 502}

\* Response bodies: {"ok": true, ...}, {"ok": false, ...}, text that is not
\* JSON, and the JSON text null.
HttpBodies == {"okTrue", "okFalse", "notJson", "null"}

HttpResults ==
  { [kind |-> "response", statusCode |-> c, body |-> b] :
      c \in HttpStatuses, b \in HttpBodies }
    \cup { [kind |-> k, statusCode |-> 0, body |-> ""] : k \in {"error", "timeout"} }

SendError(message, statusCode) == [message |-> message, statusCode |-> statusCode]

\* exec() of sendMessage: how its promise settles for what came back.  The
\* errors of JSON.parse, of reading `.ok` of null, of the socket and of the
\* timeout have no statusCode property, which the caller reads as 0.
ExecResult(r) ==
  IF r.kind = "timeout" THEN Rejected(SendError("Request timeout", 0))
  ELSE IF r.kind = "error" THEN Rejected(SendError("request error", 0))
  ELSE IF r.body = "notJson" THEN Rejected(SendError("SyntaxError", 0))
  ELSE IF r.body = "null" THEN Rejected(SendError("TypeError", 0))
  ELSE IF r.statusCode = 200 /\ r.body = "okTrue" THEN Fulfilled("parsed")
  ELSE Rejected(SendError("Telegram API error", r.statusCode))

SendIdle == [pc |-> "idle", results |-> <<>>, requests |-> 0, outcome |-> Pending]

\* ------------------------------------------------------------ the handler
\* A bug for comparison: hasConfiguredSecretEnv() without the trim() calls.
HasConfiguredSecretEnvUntrimmed(e) ==
  \/ Truthy(e["TELEGRAM_SECRET_ARN"])
  \/ Truthy(e["TELEGRAM_WEBHOOK_SECRET"]) /\ Truthy(e["TELEGRAM_BOT_TOKEN"])

\* A bug for comparison: one fallback value alone counts as configured.
HasConfiguredSecretEnvEither(e) ==
  LET arn == e["TELEGRAM_SECRET_ARN"]
      fallbackWebhook == e["TELEGRAM_WEBHOOK_SECRET"]
      fallbackToken == e["TELEGRAM_BOT_TOKEN"]
  IN \/ Truthy(arn) /\ Truthy(Some(Trim(arn[1])))
     \/ Truthy(fallbackWebhook) /\ Truthy(Some(Trim(fallbackWebhook[1])))
     \/ Truthy(fallbackToken) /\ Truthy(Some(Trim(fallbackToken[1])))

\* hasConfiguredSecretEnv(): Boolean(x && x.trim()) for the ARN, or for both
\* fallbacks.
HasConfiguredSecretEnv(e) ==
  LET arn == e["TELEGRAM_SECRET_ARN"]
      fallbackWebhook == e["TELEGRAM_WEBHOOK_SECRET"]
      fallbackToken == e["TELEGRAM_BOT_TOKEN"]
  IN \/ Truthy(arn) /\ Truthy(Some(Trim(arn[1])))
     \/ /\ Truthy(fallbackWebhook) /\ Truthy(Some(Trim(fallbackWebhook[1])))
        /\ Truthy(fallbackToken) /\ Truthy(Some(Trim(fallbackToken[1])))

\* event.body by what the handler can tell apart: null, text that is not
\* JSON, JSON that is not an update, an update without a message, and an
\* update with a message.
BodyKinds == {"absent", "unparsable", "badStructure", "noMessage", "message"}

\* safeJsonParse(event.body).ok
SafeJsonParseOk(body) == body \notin {"absent", "unparsable"}

\* isTelegramUpdate(parsed.value)
IsTelegramUpdate(body) == body \in {"noMessage", "message"}

\* ok(message) and error(statusCode, errorMessage) of utils/http
HttpOk(message) == [statusCode |-> 200, message |-> message]
HttpError(statusCode, errorMessage) == [statusCode |-> statusCode, message |-> errorMessage]

\* ----------------------------------------------------------- BrowserService
\* A new BrowserService: the three references are null (FALSE).  Besides the
\* three fields the record keeps what the latest call was and did: its
\* name, its result, whether it called into Playwright through this.page,
\* whether close() logged a cleanup error; the latest of initialize() and
\* close() with its result ("new" before both); and the numbers of calls.
ServiceNew ==
  [browser |-> FALSE, context |-> FALSE, page |-> FALSE,
   op |-> "none", result |-> "none", touched |-> FALSE, cleanupError |-> FALSE,
   phase |-> "new", calls |-> 0, closeCalls |-> 0]

\* Which Playwright call of close() throws, if any.
CloseFailures == {"none", "page", "context", "browser"}

\* Which Playwright call of initialize() throws, if any.
InitializeFailures == {"none", "launch", "newContext", "newPage"}

\* The methods that start with `if (!this.page) throw ...`.
PageOperations ==
  {"navigateTo", "acceptCookies", "clickChooseLocationElement",
   "waitForLocationPopup", "clickElementBySelector",
   "findAndPrintStationItems", "processReturnStation"}

\* The body of close(): page, context and browser are closed and set to
\* null in turn, each only if it is set; the first close that throws ends
\* the try block, and the catch logs the error.
CloseRefs(s, f) ==
  LET afterPage == IF s.page /\ f = "page"
                   THEN [s EXCEPT !.cleanupError = TRUE]
                   ELSE [s EXCEPT !.page = FALSE, !.cleanupError = FALSE]
      afterContext == IF afterPage.cleanupError THEN afterPage
                      ELSE IF afterPage.context /\ f = "context"
                      THEN [afterPage EXCEPT !.cleanupError = TRUE]
                      ELSE [afterPage EXCEPT !.context = FALSE]
      afterBrowser == IF afterContext.cleanupError THEN afterContext
                      ELSE IF afterContext.browser /\ f = "browser"
                      THEN [afterContext EXCEPT !.cleanupError = TRUE]
                      ELSE [afterContext EXCEPT !.browser = FALSE]
  IN [afterBrowser EXCEPT !.closeCalls = @ + 1]

\* close(): never rejects.
CloseOn(s, f) ==
  [CloseRefs(s, f) EXCEPT !.op = "close", !.result = "returned",
                          !.touched = FALSE, !.phase = "closed",
                          !.calls = @ + 1]

\* initialize(): launch, newContext and newPage in turn; when one throws,
\* close() is awaited and the call rejects with 'Failed to initialize
\* browser: ...'.
InitializeOn(s, fail, f) ==
  LET tried ==
        IF fail = "launch" THEN s
        ELSE IF fail = "newContext" THEN [s EXCEPT !.browser = TRUE]
        ELSE IF fail = "newPage" THEN [s EXCEPT !.browser = TRUE, !.context = TRUE]
        ELSE [s EXCEPT !.browser = TRUE, !.context = TRUE, !.page = TRUE]
      rec(t, r) == [t EXCEPT !.op = "initialize", !.result = r, !.touched = FALSE,
                             !.phase = IF r = "ok" THEN "initialized" ELSE "initFailed",
                             !.calls = @ + 1]
  IN IF fail = "none"
     THEN rec([tried EXCEPT !.cleanupError = FALSE], "ok")
     ELSE rec(CloseRefs(tried, f), "failed")

\* navigateTo(), acceptCookies(), ...: without a page the call rejects with
\* 'Browser not initialized. Call initialize() first.'; with one it calls
\* into Playwright and rejects with 'Failed to ...' when that throws, but
\* processReturnStation() catches and returns the station with the error.
PageOperationOn(s, op, fail) ==
  IF ~s.page
  THEN [s EXCEPT !.op = op, !.result = "notInitialized", !.touched = FALSE,
                 !.cleanupError = FALSE, !.calls = @ + 1]
  ELSE [s EXCEPT !.op = op, !.touched = TRUE, !.cleanupError = FALSE,
                 !.calls = @ + 1,
                 !.result = IF fail /\ op # "processReturnStation"
                            THEN "failed" ELSE "ok"]

\* ----------------------------------------------------- runBrowserAutomation
\* process.exit(1) ends the process at once; the tests replace it by a
\* function that returns.
ExitBehaviours == {"terminates", "returns"}

\* runBrowserAutomation() before it is called: its position, how
\* process.exit behaves, the number of pickup stations and the index of the
\* current one, the same for the return stations of the current pickup
\* station, whether the outer catch block has run, and the number of its
\* own close() calls.
RunIdle ==
  [pc |-> "idle", exit |-> "terminates", pickups |-> 0, i |-> 0, returns |-> 0,
   j |-> 0, failed |-> FALSE, closeCalls |-> 0]

\* The awaited calls of the try block before the loop, but the first and
\* the last, each with the position after it.
TopLevelSteps ==
  [navigateTo |-> "acceptCookies",
   acceptCookies |-> "clickLocation",
   clickLocation |-> "waitForLocationPopup",
   waitForLocationPopup |-> "findPickups"]

\* The awaited calls of the loop body that the inner try block does not
\* handle specially, each with the position after it ("next" is the next
\* pickup station).
PickupSteps ==
  [clickPickup |-> "clickSearchReturn",
   clickReturnAlt |-> "waitReturnPopup",
   waitReturnPopup |-> "findReturns",
   clickModalClose |-> "clickReopen",
   clickReopen |-> "waitReopenPopup",
   waitReopenPopup |-> "next"]

\* The BrowserService method called at a position.
OperationAt(pc) ==
  CASE pc \in {"navigateTo", "acceptCookies", "waitForLocationPopup",
               "processReturnStation"} -> pc
    [] pc \in {"waitReturnPopup", "waitReopenPopup"} -> "waitForLocationPopup"
    [] pc \in {"findPickups", "findReturns"} -> "findAndPrintStationItems"
    [] OTHER -> "clickElementBySelector"

\* ------------------------------------------------------------------- state
VARIABLES
  env,            \* process.env: the four variables the resolver reads
  cachedSecrets,  \* module variable cachedSecrets (None = undefined)
  inFlight,       \* module variable inFlight: 0 = undefined, else the id of
                  \* the attempt whose promise exec().finally(...) it holds
  attempts,       \* every exec() invocation so far: the branch it took, its
                  \* position, what sm.send(cmd) answered, the outcome of
                  \* its promise, and how many getTelegramSecrets() calls
                  \* returned that promise
  lastCall,       \* what the latest getTelegramSecrets() call returned: a
                  \* resolved value (cached) or the promise of attempt att
  cleared,        \* whether clearTelegramSecretCache() has been called so far
  lastOp,         \* the latest call into the module: "call" for
                  \* getTelegramSecrets(), "clear" for
                  \* clearTelegramSecretCache() ("clearAfterSuccess" when
                  \* the call before it had been given a pair by then),
                  \* "none" before the first
  clearedAt,      \* how many attempts had been started when
                  \* clearTelegramSecretCache() was last called
  budget,         \* getTelegramSecrets() calls the behaviour may still make
  getterCalls,    \* the calls of getTelegramWebhookSecret() and
                  \* getTelegramBotToken(): the getter, what its
                  \* getTelegramSecrets() call returned, and its own outcome
  send,           \* the TelegramService.sendMessage() call: its position,
                  \* the HTTP requests it has issued, what came back for
                  \* each, and the outcome of its promise
  service,        \* the BrowserService instance
  run,            \* the runBrowserAutomation() call
  handler         \* the webhook handler: its position in the current
                  \* invocation, the kind of event.body, what its calls of
                  \* hasConfiguredSecretEnv() and getTelegramSecrets()
                  \* returned, its botToken, its response, and the number
                  \* of invocations so far

vars == <<env, cachedSecrets, inFlight, attempts, lastCall, cleared, lastOp,
          clearedAt, budget, getterCalls, send, handler, service, run>>

AttemptIds == 1..Len(attempts)

\* exec() suspended at `await sm.send(cmd)`: a store fetch is outstanding.
Outstanding == {a \in AttemptIds : attempts[a].pc = "awaitSend"}

\* Number of sm.send(cmd) invocations so far.
SendCount == Cardinality({a \in AttemptIds : attempts[a].path = "arn"})

\* What the promise held in inFlight for attempt a has delivered so far to
\* the calls that returned it: nothing until the finally callback has run.
Delivered(a) ==
  IF attempts[a].pc = "done" THEN attempts[a].outcome ELSE Pending

NoCall == [branch |-> "none", att |-> 0, value |-> None]

HandlerIdle ==
  [pc |-> "idle", body |-> "", configured |-> None, prefetch |-> NoCall,
   jit |-> NoCall, botToken |-> <<>>, response |-> None, invocations |-> 0,
   log |-> <<>>]

\* The module's state when it has just been loaded.
Loaded ==
  /\ cachedSecrets = None
  /\ inFlight = 0
  /\ attempts = <<>>
  /\ lastCall = NoCall
  /\ cleared = FALSE
  /\ lastOp = "none"
  /\ clearedAt = 0
  /\ getterCalls = <<>>
  /\ send = SendIdle
  /\ handler = HandlerIdle
  /\ service = ServiceNew
  /\ run = RunIdle

Init ==
  /\ env \in CoreEnvs
  /\ Loaded
  /\ budget = MaxCalls

InitData ==
  /\ env \in Envs
  /\ Loaded
  /\ budget = MaxDataCalls

\* ----------------------------------------------------------------- actions
\* `inFlight = exec().finally(...); return inFlight;`: exec() runs up to
\* its first suspension.  With an ARN it calls sm.send(cmd) and suspends;
\* otherwise it settles at once (writing the cache on the fallback path), and
\* the finally callback is left to a later microtask.
RunExec(slot) ==
  /\ budget > 0
  /\ budget' = budget - 1
  /\ LET id == Len(attempts) + 1
         out == ExecLocal(env)
     IN /\ IF ArnConfigured(env)
           THEN /\ attempts' = Append(attempts, [path |-> "arn", pc |-> "awaitSend",
                                                 outcome |-> Pending, callers |-> 1,
                                                 answer |-> None])
                /\ UNCHANGED cachedSecrets
           ELSE /\ attempts' = Append(attempts,
                       [path |-> IF out.value # None THEN "fallback" ELSE "none",
                        pc |-> "settled", outcome |-> out, callers |-> 1,
                        answer |-> None])
                /\ cachedSecrets' = IF out.value # None THEN out.value ELSE cachedSecrets
        /\ inFlight' = slot
        /\ lastCall' = [branch |-> "started", att |-> id, value |-> None]
  /\ lastOp' = "call"
  /\ UNCHANGED <<env, cleared, clearedAt>>

\* A bug for comparison: the promise is returned but not stored in inFlight.
StartExecNotStored == RunExec(inFlight)

\* `inFlight = exec().finally(...)`: the slot holds the new attempt's promise.
StartExec == RunExec(Len(attempts) + 1)

\* A bug for comparison: no `if (cachedSecrets) return cachedSecrets;`.
CallCachedMissing ==
  /\ cachedSecrets # None
  /\ StartExec

\* getTelegramSecrets(), `if (cachedSecrets) return cachedSecrets;`
CallCached ==
  /\ budget > 0
  /\ budget' = budget - 1
  /\ cachedSecrets # None
  /\ lastCall' = [branch |-> "cached", att |-> 0, value |-> cachedSecrets]
  /\ lastOp' = "call"
  /\ UNCHANGED <<env, cachedSecrets, inFlight, attempts, cleared, clearedAt>>

\* A bug for comparison: no `if (inFlight) return inFlight;`.
CallJoinMissing ==
  /\ cachedSecrets = None
  /\ inFlight # 0
  /\ StartExec

\* getTelegramSecrets(), `if (inFlight) return inFlight;`
CallJoin ==
  /\ budget > 0
  /\ budget' = budget - 1
  /\ cachedSecrets = None
  /\ inFlight # 0
  /\ lastCall' = [branch |-> "joined", att |-> inFlight, value |-> None]
  /\ attempts' = [attempts EXCEPT ![inFlight].callers = @ + 1]
  /\ lastOp' = "call"
  /\ UNCHANGED <<env, cachedSecrets, inFlight, cleared, clearedAt>>

\* getTelegramSecrets() when neither early return is taken.
CallStart ==
  /\ cachedSecrets = None
  /\ inFlight = 0
  /\ StartExec

GetTelegramSecrets == CallCached \/ CallJoin \/ CallStart

\* A bug for comparison: a failed resolution from the store is replaced by
\* the fallback values when both are configured.
StoreRespondFallsBack(a, resp) ==
  /\ attempts[a].pc = "awaitSend"
  /\ LET out == IF ExecAfterSend(resp).error # None /\ FallbacksConfigured(env)
                THEN ExecLocal(env) ELSE ExecAfterSend(resp)
     IN /\ attempts' = [attempts EXCEPT ![a].pc = "settled", ![a].outcome = out,
                                         ![a].answer = Some(resp)]
        /\ cachedSecrets' = IF out.value # None THEN out.value ELSE cachedSecrets
  /\ UNCHANGED <<env, inFlight, lastCall, cleared, lastOp, clearedAt, budget>>

\* A bug for comparison: a rejection of sm.send(cmd) is swallowed and exec()
\* never settles.
StoreRespondHangsOnError(a, resp) ==
  /\ attempts[a].pc = "awaitSend"
  /\ attempts[a].answer = None
  /\ LET out == ExecAfterSend(resp)
     IN /\ attempts' =
             IF resp.rejected
             THEN [attempts EXCEPT ![a].answer = Some(resp)]
             ELSE [attempts EXCEPT ![a].pc = "settled", ![a].outcome = out,
                                   ![a].answer = Some(resp)]
        /\ cachedSecrets' = IF out.value # None THEN out.value ELSE cachedSecrets
  /\ UNCHANGED <<env, inFlight, lastCall, cleared, lastOp, clearedAt, budget>>

\* The store answers attempt a and exec() resumes after `await sm.send(cmd)`:
\* it throws, or parses, writes cachedSecrets and returns.
StoreRespond(a, resp) ==
  /\ attempts[a].pc = "awaitSend"
  /\ LET out == ExecAfterSend(resp)
     IN /\ attempts' = [attempts EXCEPT ![a].pc = "settled", ![a].outcome = out,
                                         ![a].answer = Some(resp)]
        /\ cachedSecrets' = IF out.value # None THEN out.value ELSE cachedSecrets
  /\ UNCHANGED <<env, inFlight, lastCall, cleared, lastOp, clearedAt, budget>>

\* A bug for comparison: .then(callback) in place of .finally(callback), so
\* that the slot is emptied only when exec() succeeded.
FinallyOnSuccessOnly(a) ==
  /\ attempts[a].pc = "settled"
  /\ inFlight' = IF attempts[a].outcome.error # None THEN inFlight ELSE 0
  /\ attempts' = [attempts EXCEPT ![a].pc = "done"]
  /\ UNCHANGED <<env, cachedSecrets, lastCall, cleared, lastOp, clearedAt, budget>>

\* A bug for comparison: the callback does not reset inFlight.
FinallyKeepsSlot(a) ==
  /\ attempts[a].pc = "settled"
  /\ attempts' = [attempts EXCEPT ![a].pc = "done"]
  /\ UNCHANGED <<env, cachedSecrets, inFlight, lastCall, cleared, lastOp,
               clearedAt, budget>>

\* The callback of .finally(): `inFlight = undefined`; the promise stored in
\* inFlight then settles with exec()'s outcome.
Finally(a) ==
  /\ attempts[a].pc = "settled"
  /\ inFlight' = 0
  /\ attempts' = [attempts EXCEPT ![a].pc = "done"]
  /\ UNCHANGED <<env, cachedSecrets, lastCall, cleared, lastOp, clearedAt, budget>>

\* The latest getTelegramSecrets() call has been given a pair.
LastCallSucceeded ==
  \/ lastCall.branch = "cached"
  \/ lastCall.att # 0 /\ Delivered(lastCall.att).value # None

\* clearTelegramSecretCache()
ClearTelegramSecretCache ==
  /\ cachedSecrets' = None
  /\ inFlight' = 0
  /\ cleared' = TRUE
  /\ lastOp' = IF LastCallSucceeded THEN "clearAfterSuccess" ELSE "clear"
  /\ clearedAt' = Len(attempts)
  /\ UNCHANGED <<env, attempts, lastCall, budget>>

\* The environment of the process changes (tests assign and delete variables).
SetEnv(k, v) ==
  /\ v # env[k]
  /\ env' = [env EXCEPT ![k] = v]
  /\ UNCHANGED <<cachedSecrets, inFlight, attempts, lastCall, cleared, lastOp,
               clearedAt, budget>>

\* What `await getTelegramSecrets()` has produced so far for the call that
\* returned c: the cached pair, or what the promise of the attempt delivered.
Awaited(c) ==
  IF c.branch = "cached" THEN Fulfilled(c.value[1]) ELSE Delivered(c.att)

\* `const s = await getTelegramSecrets(client);` up to the suspension.
CallGetter(fn) ==
  /\ GetTelegramSecrets
  /\ getterCalls' = Append(getterCalls,
                           [fn |-> fn, from |-> lastCall', outcome |-> Pending])

\* getTelegramWebhookSecret()
GetTelegramWebhookSecret == CallGetter("webhookSecret")

\* getTelegramBotToken()
GetTelegramBotToken == CallGetter("botToken")

\* A bug for comparison: each getter returns the other field.
GetterResumeSwapped(i) ==
  LET c == getterCalls[i]
      s == Awaited(c.from)
      other == IF c.fn = "botToken" THEN "webhookSecret" ELSE "botToken"
  IN /\ c.outcome = Pending
     /\ s.settled
     /\ getterCalls' = [getterCalls EXCEPT ![i].outcome =
                          IF s.value # None THEN Fulfilled(s.value[1][other]) ELSE s]
     /\ UNCHANGED <<env, cachedSecrets, inFlight, attempts, lastCall, cleared,
                    lastOp, clearedAt, budget>>

\* The getter resumes after its await: `return s.webhookSecret` or
\* `return s.botToken`; a rejection of getTelegramSecrets() passes through.
GetterResume(i) ==
  LET c == getterCalls[i]
      s == Awaited(c.from)
  IN /\ c.outcome = Pending
     /\ s.settled
     /\ getterCalls' = [getterCalls EXCEPT ![i].outcome =
                          IF s.value # None THEN Fulfilled(s.value[1][c.fn]) ELSE s]
     /\ UNCHANGED <<env, cachedSecrets, inFlight, attempts, lastCall, cleared,
                    lastOp, clearedAt, budget>>

\* TelegramService.sendMessage(params) up to `await exec()`: the first
\* request is written.
SendMessage ==
  /\ send.pc \in {"idle", "done"}
  /\ send' = [pc |-> "exec", results |-> <<>>, requests |-> 1, outcome |-> Pending]

\* The request in progress ends and sendMessage resumes: it returns, or
\* (first request, status >= 500) calls exec() again, or rethrows.
HttpRespond(r) ==
  /\ send.pc = "exec"
  /\ LET out == ExecResult(r)
         seen == Append(send.results, r)
     IN send' =
          IF out.error # None /\ send.requests = 1 /\ out.error[1].statusCode >= 500
          THEN [send EXCEPT !.results = seen, !.requests = 2]
          ELSE [send EXCEPT !.pc = "done", !.results = seen, !.outcome = out]

\* Neither the resolver nor the BrowserService is involved in the step.
ResolverIdle ==
  UNCHANGED <<env, cachedSecrets, inFlight, attempts, lastCall, cleared, lastOp,
              clearedAt, budget, getterCalls, service, run>>

\* The line of console.error() when no source is configured in production.
MissingSourceLine ==
  "Missing TELEGRAM_SECRET_ARN (or local fallbacks) in production"

\* The lines the .catch() callback of the prefetch call writes before the
\* handler resumes: one warning if the prefetch call was rejected.
PrefetchCatch ==
  IF handler.prefetch # NoCall /\ Awaited(handler.prefetch).error # None
  THEN <<"Failed to prefetch Telegram secrets">> ELSE <<>>

\* A bug for comparison: no check of the configuration before the calls of
\* getTelegramSecrets().
HandlerInvokeNoCheck(body) ==
  /\ handler.pc \in {"idle", "returned"}
  /\ handler.invocations < MaxInvocations
  /\ handler' = [HandlerIdle EXCEPT
                   !.body = body,
                   !.log = <<"Lambda invoked">>,
                   !.invocations = handler.invocations + 1,
                   !.pc = IF Truthy(env["TELEGRAM_SECRET_ARN"])
                          THEN "prefetch" ELSE "resolve"]
  /\ ResolverIdle
  /\ UNCHANGED send

\* The handler from its start to the first getTelegramSecrets() call: the
\* check of the configuration, which returns 500 in production when no
\* source is configured.  The calls that follow in the same synchronous run
\* are HandlerPrefetch and HandlerResolve; nothing else runs in between.
HandlerInvoke(body) ==
  /\ handler.pc \in {"idle", "returned"}
  /\ handler.invocations < MaxInvocations
  /\ LET production == IsProduction(env)
         h == [HandlerIdle EXCEPT
                 !.body = body,
                 !.log = <<"Lambda invoked">>,
                 !.configured = IF production
                                THEN Some(HasConfiguredSecretEnv(env)) ELSE None,
                 !.invocations = handler.invocations + 1]
     IN handler' =
          IF production /\ ~HasConfiguredSecretEnv(env)
          THEN [h EXCEPT !.pc = "returned",
                         !.log = Append(h.log, MissingSourceLine),
                         !.response = Some(HttpError(500, "Secret not configured"))]
          ELSE [h EXCEPT !.pc = IF Truthy(env["TELEGRAM_SECRET_ARN"])
                                THEN "prefetch" ELSE "resolve"]
  /\ ResolverIdle
  /\ UNCHANGED send

\* `void getTelegramSecrets().catch(...)` when TELEGRAM_SECRET_ARN is truthy.
HandlerPrefetch ==
  /\ handler.pc = "prefetch"
  /\ GetTelegramSecrets
  /\ handler' = [handler EXCEPT !.pc = "resolve", !.prefetch = lastCall']
  /\ UNCHANGED <<getterCalls, send, service, run>>

\* A bug for comparison: the just-in-time call runs exec() itself instead of
\* going through getTelegramSecrets().
HandlerResolveOwnFetch ==
  /\ handler.pc = "resolve"
  /\ StartExec
  /\ handler' = [handler EXCEPT !.pc = "awaitSecrets", !.jit = lastCall']
  /\ UNCHANGED <<getterCalls, send, service, run>>

\* `await getTelegramSecrets().catch(() => ({ botToken: '' }))` up to the
\* suspension.
HandlerResolve ==
  /\ handler.pc = "resolve"
  /\ GetTelegramSecrets
  /\ handler' = [handler EXCEPT !.pc = "awaitSecrets", !.jit = lastCall']
  /\ UNCHANGED <<getterCalls, send, service, run>>

\* The handler resumes with the botToken, '' if the call was rejected: it
\* returns 500 without one; else it returns 200 for a body that is not a
\* message update, or calls TelegramService.sendMessage() and suspends.
HandlerResume ==
  /\ handler.pc = "awaitSecrets"
  /\ Awaited(handler.jit).settled
  /\ LET s == Awaited(handler.jit)
         botToken == IF s.value # None THEN s.value[1].botToken ELSE <<>>
         h == [handler EXCEPT !.botToken = botToken,
                              !.log = handler.log \o PrefetchCatch]
         return(line, r) == [h EXCEPT !.pc = "returned",
                                      !.log = Append(h.log, line),
                                      !.response = Some(r)]
     IN IF botToken = <<>>
        THEN /\ handler' = return("Missing Telegram bot token",
                                  HttpError(500, "Bot token not configured"))
             /\ UNCHANGED send
        ELSE IF ~SafeJsonParseOk(handler.body)
        THEN /\ handler' = return("Invalid JSON payload",
                                  HttpOk("Webhook processed (invalid JSON)"))
             /\ UNCHANGED send
        ELSE IF ~IsTelegramUpdate(handler.body)
        THEN /\ handler' = return("Invalid webhook structure",
                                  HttpOk("Webhook processed (invalid structure)"))
             /\ UNCHANGED send
        ELSE IF handler.body # "message"
        THEN /\ handler' = return("Non-message update ignored",
                                  HttpOk("Webhook processed (non-message update)"))
             /\ UNCHANGED send
        ELSE /\ handler' = [h EXCEPT !.pc = "sending"]
             /\ SendMessage
  /\ ResolverIdle

\* A bug for comparison: no try/catch around sendMessage(), a failed send
\* becomes a 500.
HandlerAfterSendUncaught ==
  /\ handler.pc = "sending"
  /\ send.pc = "done"
  /\ handler' = [handler EXCEPT
                   !.pc = "returned",
                   !.response =
                     IF send.outcome.error # None
                     THEN Some(HttpError(500, "Internal server error"))
                     ELSE Some(HttpOk("Webhook processed successfully"))]
  /\ ResolverIdle
  /\ UNCHANGED send

\* A bug for comparison: the line logged for a failed send tells the bot
\* token.
HandlerAfterSendLogsToken ==
  /\ handler.pc = "sending"
  /\ send.pc = "done"
  /\ handler' = [handler EXCEPT
                   !.pc = "returned",
                   !.log = IF send.outcome.error # None
                           THEN Append(@, IF handler.botToken = <<"t">>
                                          THEN "Failed to send Telegram message as t"
                                          ELSE "Failed to send Telegram message as s")
                           ELSE @,
                   !.response =
                     IF send.outcome.error # None
                     THEN Some(HttpOk("Webhook processed (send failure)"))
                     ELSE Some(HttpOk("Webhook processed successfully"))]
  /\ ResolverIdle
  /\ UNCHANGED send

\* The handler resumes after `await TelegramService.sendMessage(...)`.
HandlerAfterSend ==
  /\ handler.pc = "sending"
  /\ send.pc = "done"
  /\ handler' = [handler EXCEPT
                   !.pc = "returned",
                   !.log = IF send.outcome.error # None
                           THEN Append(@, "Failed to send Telegram message")
                           ELSE @,
                   !.response =
                     IF send.outcome.error # None
                     THEN Some(HttpOk("Webhook processed (send failure)"))
                     ELSE Some(HttpOk("Webhook processed successfully"))]
  /\ ResolverIdle
  /\ UNCHANGED send

\* The handler is not in the middle of a synchronous run.
HandlerSuspended == handler.pc \notin {"prefetch", "resolve"}

\* The step is not one of a getter: getTelegramSecrets() was called directly,
\* or the step is one of the store or of a callback.
NoGetter == UNCHANGED <<getterCalls, send, handler, service, run>>

\* Every interleaving of the resolver's operations, over the representative
\* configurations and store answers.
Next ==
  \/ CallCached /\ NoGetter
  \/ CallJoin /\ NoGetter
  \/ CallStart /\ NoGetter
  \/ \E a \in AttemptIds : \E resp \in CoreResponses :
       StoreRespond(a, resp) /\ NoGetter
  \/ \E a \in AttemptIds : Finally(a) /\ NoGetter
  \/ ClearTelegramSecretCache /\ NoGetter
  \/ \E k \in EnvVars : \E v \in CoreEnvValues(k) : SetEnv(k, v) /\ NoGetter

Spec == Init /\ [][Next]_vars

\* A process whose configuration stays as it was at start, over every
\* configuration and every store answer.
NextData ==
  \/ CallCached /\ NoGetter
  \/ CallJoin /\ NoGetter
  \/ CallStart /\ NoGetter
  \/ \E a \in AttemptIds : \E resp \in StoreResponses :
       StoreRespond(a, resp) /\ NoGetter
  \/ \E a \in AttemptIds : Finally(a) /\ NoGetter

SpecData == InitData /\ [][NextData]_vars

InitGetters ==
  /\ env \in CoreEnvs
  /\ Loaded
  /\ budget = MaxGetterCalls

\* A process that reads the secrets through the two getters only.
NextGetters ==
  \/ GetTelegramWebhookSecret /\ UNCHANGED <<send, handler, service, run>>
  \/ GetTelegramBotToken /\ UNCHANGED <<send, handler, service, run>>
  \/ \E i \in 1..Len(getterCalls) : GetterResume(i) /\ UNCHANGED <<send, handler, service, run>>
  \/ \E a \in AttemptIds : \E resp \in CoreResponses :
       StoreRespond(a, resp) /\ NoGetter
  \/ \E a \in AttemptIds : Finally(a) /\ NoGetter

SpecGetters == InitGetters /\ [][NextGetters]_vars

\* Answers to the sendMessage() request that the handler can tell apart.
CoreHttpResults ==
  { [kind |-> "response", statusCode |-> 200, body |-> "okTrue"],
    [kind |-> "response", statusCode |-> 400, body |-> "okFalse"],
    [kind |-> "response", statusCode |-> 500, body |-> "okFalse"],
    [kind |-> "timeout", statusCode |-> 0, body |-> ""] }

InitHandler ==
  /\ env \in Envs
  /\ Loaded
  /\ budget = 2 * MaxInvocations

\* A Lambda container: invocations of the handler one after the other on
\* the same module state, over every configuration.
NextHandler ==
  \/ \E body \in BodyKinds : HandlerInvoke(body)
  \/ HandlerPrefetch
  \/ HandlerResolve
  \/ HandlerResume
  \/ HandlerAfterSend
  \/ \E a \in AttemptIds : \E resp \in CoreResponses :
       HandlerSuspended /\ StoreRespond(a, resp) /\ NoGetter
  \/ \E a \in AttemptIds : HandlerSuspended /\ Finally(a) /\ NoGetter
  \/ \E r \in CoreHttpResults : HttpRespond(r) /\ ResolverIdle /\ UNCHANGED handler

SpecHandler == InitHandler /\ [][NextHandler]_vars

\* The resolver with the scheduling of the event loop: the callback of
\* .finally() is a promise reaction, which runs once exec() has settled.
\* Whether the store answers is left open.
InitLive ==
  /\ env \in CoreEnvs
  /\ Loaded
  /\ budget = MaxLiveCalls

NextLive ==
  \/ CallCached /\ NoGetter
  \/ CallJoin /\ NoGetter
  \/ CallStart /\ NoGetter
  \/ \E a \in AttemptIds : \E resp \in CoreResponses :
       StoreRespond(a, resp) /\ NoGetter
  \/ \E a \in AttemptIds : Finally(a) /\ NoGetter
  \/ ClearTelegramSecretCache /\ NoGetter

SpecLive ==
  /\ InitLive
  /\ [][NextLive]_vars
  /\ \A a \in 1..MaxLiveCalls :
       WF_vars(a \in AttemptIds /\ Finally(a) /\ NoGetter)

InitTelegram ==
  /\ env = [k \in EnvVars |-> None]
  /\ Loaded
  /\ budget = 0

\* One TelegramService.sendMessage() call and the HTTP exchange under it.
NextTelegram ==
  \/ send.pc = "idle" /\ SendMessage /\ ResolverIdle /\ UNCHANGED handler
  \/ \E r \in HttpResults : HttpRespond(r) /\ ResolverIdle /\ UNCHANGED handler

SpecTelegram == InitTelegram /\ [][NextTelegram]_vars

\* Only the BrowserService is involved in the step.
TelegramIdle ==
  UNCHANGED <<env, cachedSecrets, inFlight, attempts, lastCall, cleared, lastOp,
              clearedAt, budget, getterCalls, send, handler>>

\* initialize()
Initialize(fail, f) ==
  /\ service.calls < MaxServiceCalls
  /\ service' = InitializeOn(service, fail, f)

\* One of the page operations.
PageOperation(op, fail) ==
  /\ service.calls < MaxServiceCalls
  /\ service' = PageOperationOn(service, op, fail)

\* close()
Close(f) ==
  /\ service.calls < MaxServiceCalls
  /\ service' = CloseOn(service, f)

InitBrowser ==
  /\ env = [k \in EnvVars |-> None]
  /\ Loaded
  /\ budget = 0

\* Any sequence of calls on one BrowserService, each awaited before the
\* next, with every Playwright call free to throw.
NextBrowser ==
  \/ \E fail \in InitializeFailures : \E f \in CloseFailures :
       Initialize(fail, f) /\ TelegramIdle /\ UNCHANGED run
  \/ \E op \in PageOperations : \E fail \in BOOLEAN :
       PageOperation(op, fail) /\ TelegramIdle /\ UNCHANGED run
  \/ \E f \in CloseFailures : Close(f) /\ TelegramIdle /\ UNCHANGED run

SpecBrowser == InitBrowser /\ [][NextBrowser]_vars

\* The position after the current pickup station is done with, or given up:
\* the next pickup station, or the end of the try block and the finally
\* block.
NextPickup ==
  IF run.i < run.pickups
  THEN [run EXCEPT !.pc = "clickPickup", !.i = @ + 1, !.returns = 0, !.j = 0]
  ELSE [run EXCEPT !.pc = "finally", !.returns = 0, !.j = 0]

\* `await browserService.initialize()`
RunInitialize(fail, f) ==
  /\ run.pc = "initialize"
  /\ service' = InitializeOn(service, fail, f)
  /\ run' = [run EXCEPT !.pc = IF service'.result = "ok"
                               THEN "navigateTo" ELSE "catch"]

\* An awaited call before the loop: a rejection goes to the outer catch.
RunTopLevel(fail) ==
  /\ run.pc \in DOMAIN TopLevelSteps
  /\ service' = PageOperationOn(service, OperationAt(run.pc), fail)
  /\ run' = [run EXCEPT !.pc = IF service'.result = "ok"
                               THEN TopLevelSteps[run.pc] ELSE "catch"]

\* `const pickupStations = await browserService.findAndPrintStationItems()`
\* and the start of the loop.
RunFindPickups(fail, n) ==
  /\ run.pc = "findPickups"
  /\ service' = PageOperationOn(service, OperationAt(run.pc), fail)
  /\ run' = IF service'.result # "ok" THEN [run EXCEPT !.pc = "catch"]
            ELSE IF n = 0 THEN [run EXCEPT !.pc = "finally"]
            ELSE [run EXCEPT !.pc = "clickPickup", !.pickups = n, !.i = 1]

\* An awaited call of the loop body: a rejection goes to the inner catch,
\* which goes on with the next pickup station.
RunPickupStep(fail) ==
  /\ run.pc \in DOMAIN PickupSteps
  /\ service' = PageOperationOn(service, OperationAt(run.pc), fail)
  /\ run' = IF service'.result = "ok" /\ PickupSteps[run.pc] # "next"
            THEN [run EXCEPT !.pc = PickupSteps[run.pc]]
            ELSE NextPickup

\* The click on div.search-return: a rejection goes to the click on the
\* alternative selector.
RunSearchReturn(fail) ==
  /\ run.pc = "clickSearchReturn"
  /\ service' = PageOperationOn(service, OperationAt(run.pc), fail)
  /\ run' = [run EXCEPT !.pc = IF service'.result = "ok"
                               THEN "waitReturnPopup" ELSE "clickReturnAlt"]

\* `const returnStations = await browserService.findAndPrintStationItems()`
RunFindReturns(fail, n) ==
  /\ run.pc = "findReturns"
  /\ service' = PageOperationOn(service, OperationAt(run.pc), fail)
  /\ run' = IF service'.result # "ok" THEN NextPickup
            ELSE IF n = 0 THEN [run EXCEPT !.pc = "clickModalClose"]
            ELSE [run EXCEPT !.pc = "processReturnStation", !.returns = n, !.j = 1]

\* `await browserService.processReturnStation(returnStations[j])` in its
\* own try block: resolved or rejected, the loop goes on.
RunProcessReturn(fail) ==
  /\ run.pc = "processReturnStation"
  /\ service' = PageOperationOn(service, OperationAt(run.pc), fail)
  /\ run' = IF run.j < run.returns
            THEN [run EXCEPT !.j = @ + 1]
            ELSE [run EXCEPT !.pc = "clickModalClose"]

\* The outer catch block: console.error and process.exit(1).  When
\* process.exit returns, the finally block follows.
RunCatch ==
  /\ run.pc = "catch"
  /\ run' = [run EXCEPT !.failed = TRUE,
                        !.pc = IF run.exit = "terminates"
                               THEN "exited" ELSE "finally"]
  /\ UNCHANGED service

\* The finally block: `await browserService.close()`.
RunFinally(f) ==
  /\ run.pc = "finally"
  /\ service' = CloseOn(service, f)
  /\ run' = [run EXCEPT !.pc = "finished", !.closeCalls = @ + 1]

\* runBrowserAutomation() has been called: `new BrowserService()`.
InitAutomation ==
  /\ env = [k \in EnvVars |-> None]
  /\ cachedSecrets = None
  /\ inFlight = 0
  /\ attempts = <<>>
  /\ lastCall = NoCall
  /\ cleared = FALSE
  /\ lastOp = "none"
  /\ clearedAt = 0
  /\ getterCalls = <<>>
  /\ send = SendIdle
  /\ handler = HandlerIdle
  /\ budget = 0
  /\ service = ServiceNew
  /\ \E x \in ExitBehaviours : run = [RunIdle EXCEPT !.pc = "initialize", !.exit = x]

NextAutomation ==
  \/ \E fail \in InitializeFailures : \E f \in CloseFailures :
       RunInitialize(fail, f) /\ TelegramIdle
  \/ \E fail \in BOOLEAN : RunTopLevel(fail) /\ TelegramIdle
  \/ \E fail \in BOOLEAN : \E n \in 0..MaxStations :
       RunFindPickups(fail, n) /\ TelegramIdle
  \/ \E fail \in BOOLEAN : RunPickupStep(fail) /\ TelegramIdle
  \/ \E fail \in BOOLEAN : RunSearchReturn(fail) /\ TelegramIdle
  \/ \E fail \in BOOLEAN : \E n \in 0..MaxStations :
       RunFindReturns(fail, n) /\ TelegramIdle
  \/ \E fail \in BOOLEAN : RunProcessReturn(fail) /\ TelegramIdle
  \/ RunCatch /\ TelegramIdle
  \/ \E f \in CloseFailures : RunFinally(f) /\ TelegramIdle

SpecAutomation == InitAutomation /\ [][NextAutomation]_vars

\* ------------------------------------------------------------ step shapes
\* The step is a getTelegramSecrets() call.
IsCall == budget' = budget - 1

\* The step is the completion of exec() for attempt a.
Settles(a) ==
  /\ a \in AttemptIds'
  /\ attempts'[a].pc = "settled"
  /\ (a \in AttemptIds => attempts[a].pc = "awaitSend")

\* The ResolutionCache as a caller finds it.
CacheEmpty == cachedSecrets = None /\ inFlight = 0
CacheInProgress == cachedSecrets = None /\ inFlight # 0
CacheResolved == cachedSecrets # None

\* ----------------------------------------------------------------- claims

\* C1: when clearTelegramSecretCache() has not been called, at most one
\* store fetch is outstanding in every state, and of the calls made while the
\* cache is empty and the store has not answered, the first one (finding no
\* attempt in the slot, with an ARN configured) issues exactly one fetch and
\* every further one issues none and is handed the promise of that fetch.
C1_SingleFlight ==
  /\ [](~cleared => Cardinality(Outstanding) <= 1)
  /\ [][ (~cleared /\ IsCall /\ cachedSecrets = None) =>
           IF Outstanding # {}
           THEN /\ SendCount' = SendCount
                /\ lastCall'.att \in Outstanding
                /\ Outstanding' = Outstanding
           ELSE (inFlight = 0 /\ ArnConfigured(env)) =>
                  /\ SendCount' = SendCount + 1
                  /\ Outstanding' = {lastCall'.att} ]_vars

\* C1 witness: two calls have been handed the promise of one fetch that the
\* store has not answered yet, and that is the only fetch ever issued.
C1_Witness ==
  /\ ~cleared
  /\ SendCount = 1
  /\ \E a \in Outstanding : attempts[a].callers = 2

\* The step is the finally callback of attempt a.
Completes(a) ==
  /\ a \in AttemptIds
  /\ attempts[a].pc = "settled"
  /\ attempts'[a].pc = "done"

Failed(a) == attempts[a].outcome.error # None

\* C2: a call that finds a resolution in progress (nothing cached, a promise
\* in the in-flight slot) is handed that very promise and starts no attempt
\* and no store fetch of its own; the outcome of an attempt, once exec() has
\* settled, never changes, so every holder of the promise is delivered the
\* one value or the one error.
C2_JoinersShareOutcome ==
  /\ [][ (IsCall /\ CacheInProgress) =>
           /\ lastCall' = [branch |-> "joined", att |-> inFlight, value |-> None]
           /\ attempts'[inFlight].callers = attempts[inFlight].callers + 1
           /\ Len(attempts') = Len(attempts)
           /\ SendCount' = SendCount
           /\ inFlight' = inFlight ]_vars
  /\ [][ \A a \in AttemptIds :
           attempts[a].pc # "awaitSend" =>
             /\ attempts'[a].outcome = attempts[a].outcome
             /\ attempts'[a].outcome.settled ]_vars

\* C2 witness: the latest call joined an attempt already started by another
\* call, and that attempt has delivered an error to both of them.
C2_Witness ==
  /\ lastCall.branch = "joined"
  /\ attempts[lastCall.att].callers = 2
  /\ Delivered(lastCall.att).error # None

C4_NoNegativeCaching ==
  /\ [][ \A a \in AttemptIds' :
           (Settles(a) /\ attempts'[a].outcome.error # None) =>
             /\ cachedSecrets' = cachedSecrets
             /\ (~cleared => cachedSecrets' = None) ]_vars
  /\ [][ \A a \in AttemptIds :
           (Completes(a) /\ Failed(a)) =>
             /\ inFlight' = 0
             /\ cachedSecrets' = cachedSecrets
             /\ (~cleared => cachedSecrets' = None) ]_vars
  /\ [](\A a \in AttemptIds : attempts[a].pc = "done" => inFlight # a)
  /\ [][ (IsCall /\ CacheEmpty) =>
           /\ Len(attempts') = Len(attempts) + 1
           /\ lastCall' = [branch |-> "started", att |-> Len(attempts'), value |-> None]
           /\ IF ArnConfigured(env)
              THEN /\ SendCount' = SendCount + 1
                   /\ attempts'[Len(attempts')].pc = "awaitSend"
              ELSE /\ SendCount' = SendCount
                   /\ attempts'[Len(attempts')].outcome = ExecLocal(env) ]_vars

\* C4 witness: a fetch failed, its error was delivered, and the next call
\* went to the store again.
C4_Witness ==
  /\ ~cleared
  /\ Len(attempts) = 2
  /\ attempts[1].path = "arn" /\ attempts[1].pc = "done" /\ Failed(1)
  /\ attempts[2].path = "arn"
  /\ lastCall = [branch |-> "started", att |-> 2, value |-> None]

\* C5: an attempt has failed once the promise in the in-flight slot has
\* rejected, which is after its finally callback.  From then on no call is
\* handed that promise: the callers of a failed attempt are those that held
\* its promise when it rejected, and a later call is served by the cache or
\* by an attempt that is not the failed one.  (A call made between the throw
\* inside exec() and the finally callback still finds the promise in the
\* slot: it belongs to the callers waiting when the promise rejects.)
C5_ErrorStaysInCohort ==
  /\ [][ \A a \in AttemptIds :
           (attempts[a].pc = "done" /\ Failed(a)) =>
             /\ attempts'[a].callers = attempts[a].callers
             /\ (IsCall => lastCall'.att # a)
             /\ inFlight' # a ]_vars
  /\ [][ \A a \in AttemptIds :
           (Completes(a) /\ Failed(a) /\ inFlight = a) => inFlight' = 0 ]_vars

\* C5 witness: the first attempt failed for the one caller that held its
\* promise; the call made afterwards started an attempt of its own, which
\* succeeded.
C5_Witness ==
  /\ Len(attempts) = 2
  /\ attempts[1].pc = "done" /\ Failed(1) /\ attempts[1].callers = 1
  /\ lastCall = [branch |-> "started", att |-> 2, value |-> None]
  /\ Delivered(2).value # None

\* ------------------------------------------ claims about configurations
\* A string that is set and has something other than white space in it.
NonBlank(o) == o # None /\ Trim(o[1]) # <<>>

\* A string that is set and not "".
NonEmpty(o) == o # None /\ o[1] # <<>>

\* The attempt a call on the empty cache starts in this step.
NewAttempt == attempts'[Len(attempts')]

FallbackPair(e) ==
  [webhookSecret |-> e["TELEGRAM_WEBHOOK_SECRET"][1],
   botToken |-> e["TELEGRAM_BOT_TOKEN"][1]]

\* What a call on the empty cache does when the fallback pair is used.
UsesFallbacks ==
  /\ Len(attempts') = Len(attempts) + 1
  /\ NewAttempt.path = "fallback"
  /\ NewAttempt.outcome = Fulfilled(FallbackPair(env))
  /\ cachedSecrets' = Some(FallbackPair(env))
  /\ SendCount' = SendCount

\* C6 as stated: with no ARN set and both fallback strings non-empty, a call
\* on the empty cache succeeds with exactly the two fallback strings, caches
\* them and does not contact the store.
C6_AsStated ==
  [][ (IsCall /\ CacheEmpty /\ ~NonEmpty(env["TELEGRAM_SECRET_ARN"])
         /\ NonEmpty(env["TELEGRAM_WEBHOOK_SECRET"])
         /\ NonEmpty(env["TELEGRAM_BOT_TOKEN"])) => UsesFallbacks ]_vars

\* C6 amended: with no ARN set, or one of white space only, and both
\* fallback strings non-empty after trimming, a call on the empty cache
\* succeeds with exactly the two fallback strings as they are configured
\* (untrimmed), caches them and does not contact the store.
C6_FallbackPrecedence ==
  [][ (IsCall /\ CacheEmpty /\ ~NonBlank(env["TELEGRAM_SECRET_ARN"])
         /\ NonBlank(env["TELEGRAM_WEBHOOK_SECRET"])
         /\ NonBlank(env["TELEGRAM_BOT_TOKEN"])) => UsesFallbacks ]_vars

\* C6 witness: the fallback pair, white space included, has been returned
\* and cached, and the store has not been contacted.
C6_Witness ==
  /\ Len(attempts) = 1
  /\ attempts[1].path = "fallback"
  /\ env["TELEGRAM_WEBHOOK_SECRET"] = Some(<<" ", "w">>)
  /\ Delivered(1) = Fulfilled(FallbackPair(env))
  /\ cachedSecrets = Some(FallbackPair(env))
  /\ SendCount = 0

\* s and t are equal up to the case of their letters.
EqualIgnoringCase(s, t) ==
  /\ Len(s) = Len(t)
  /\ \A i \in 1..Len(s) : LowerChar(s[i]) = LowerChar(t[i])

ProductionFlag(e) ==
  e["NODE_ENV"] # None /\ EqualIgnoringCase(e["NODE_ENV"][1], StrProduction)

AnsweredWithText(a) ==
  /\ attempts[a].answer # None
  /\ ~attempts[a].answer[1].rejected
  /\ attempts[a].answer[1].SecretString # None
  /\ attempts[a].answer[1].SecretString[1].syntax # "empty"

TextOf(a) == attempts[a].answer[1].SecretString[1]

\* Field k of a JSON object is missing, not a string, or blank.
FieldBad(text, k) ==
  \/ k \notin DOMAIN text.members
  \/ text.members[k].type # "string"
  \/ Trim(text.members[k].str) = <<>>

\* The text is not JSON, not a JSON object, or lacks a usable field.
Malformed(text) ==
  \/ text.syntax # "object"
  \/ FieldBad(text, "webhookSecret")
  \/ FieldBad(text, "botToken")

\* C8: an attempt the store answered with a non-empty text that is not JSON,
\* not an object, or lacks a string webhookSecret or botToken that is
\* non-empty after trimming, fails with SecretMalformedError, and the step in
\* which it fails leaves cachedSecrets as it was.
C8_MalformedRejected ==
  /\ [](\A a \in AttemptIds :
          (AnsweredWithText(a) /\ Malformed(TextOf(a))) =>
            /\ attempts[a].outcome.value = None
            /\ attempts[a].outcome.error # None
            /\ attempts[a].outcome.error[1].name = "SecretMalformedError")
  /\ [][ \A a \in AttemptIds :
           (Settles(a) /\ AnsweredWithText(a)' /\ Malformed(TextOf(a)')) =>
             cachedSecrets' = cachedSecrets ]_vars

\* C8 witness: a payload with a good webhookSecret and no botToken was
\* rejected as malformed and nothing is cached.
C8_Witness ==
  \E a \in AttemptIds :
    /\ AnsweredWithText(a)
    /\ TextOf(a).syntax = "object"
    /\ ~FieldBad(TextOf(a), "webhookSecret")
    /\ "botToken" \notin DOMAIN TextOf(a).members
    /\ Delivered(a).error # None
    /\ Delivered(a).error[1].name = "SecretMalformedError"
    /\ cachedSecrets = None

\* The store reported the secret missing, or answered without a SecretString
\* or with an empty one.
AnsweredNotFound(a) ==
  /\ attempts[a].answer # None
  /\ \/ attempts[a].answer[1].rejected
          /\ attempts[a].answer[1].name = "ResourceNotFoundException"
     \/ ~attempts[a].answer[1].rejected
          /\ \/ attempts[a].answer[1].SecretString = None
             \/ attempts[a].answer[1].SecretString[1].syntax = "empty"

\* C9 as stated: an attempt whose fetch was answered "not found", or without
\* or with an empty SecretString, has failed with SecretNotFoundError.
C9_AsStated ==
  \A a \in AttemptIds :
    AnsweredNotFound(a) =>
      /\ attempts[a].outcome.error # None
      /\ attempts[a].outcome.error[1].name = "SecretNotFoundError"

\* C10 as stated: the error of every failed attempt is a ConfigError, a
\* SecretNotFoundError or a SecretMalformedError.
C10_AsStated ==
  \A a \in AttemptIds :
    attempts[a].outcome.error # None =>
      attempts[a].outcome.error[1].name
        \in {"ConfigError", "SecretNotFoundError", "SecretMalformedError"}

\* ------------------------------------------------- claims about the values
\* A non-empty string with no white space at either end.
TrimmedNonEmpty(x) == x # <<>> /\ Trim(x) = x

WellFormedPair(v) ==
  TrimmedNonEmpty(v.webhookSecret) /\ TrimmedNonEmpty(v.botToken)

\* C11 as stated: the pair of every attempt that succeeded, and the cached
\* pair, have a webhookSecret and a botToken that are non-empty and carry no
\* leading or trailing white space.
C11_AsStated ==
  /\ \A a \in AttemptIds :
       attempts[a].outcome.value # None => WellFormedPair(attempts[a].outcome.value[1])
  /\ cachedSecrets # None => WellFormedPair(cachedSecrets[1])

\* C11 on the remote path alone: a pair parsed from the store's answer is
\* trimmed and non-empty.
C11_RemotePathTrimmed ==
  \A a \in AttemptIds :
    (attempts[a].path = "arn" /\ attempts[a].outcome.value # None) =>
      WellFormedPair(attempts[a].outcome.value[1])

\* ------------------------------------------------ claims about clearCache
\* clearTelegramSecretCache() was called after a successful call, and
\* getTelegramSecrets() has not been called since.
ClearedAfterSuccess == lastOp = "clearAfterSuccess"

\* The call of this step starts exec(), which reads the configuration as it
\* is now: it fetches from the store when an ARN is set, returns the fallback
\* pair of now when that is set, and fails otherwise.
ReadsConfiguration ==
  /\ Len(attempts') = Len(attempts) + 1
  /\ lastCall'.branch = "started"
  /\ IF NonBlank(env["TELEGRAM_SECRET_ARN"])
     THEN NewAttempt.path = "arn" /\ SendCount' = SendCount + 1
     ELSE /\ SendCount' = SendCount
          /\ IF NonBlank(env["TELEGRAM_WEBHOOK_SECRET"])
                  /\ NonBlank(env["TELEGRAM_BOT_TOKEN"])
             THEN NewAttempt.outcome = Fulfilled(FallbackPair(env))
             ELSE NewAttempt.outcome.error # None

\* C12 as stated: once clearTelegramSecretCache() has been called after a
\* successful call, the resolver is as when loaded (nothing cached, the slot
\* empty) until the next getTelegramSecrets() call, and that call reads the
\* configuration, and the store if an ARN is set, again.
C12_AsStated ==
  /\ [](ClearedAfterSuccess => CacheEmpty)
  /\ [][ (IsCall /\ ClearedAfterSuccess) => ReadsConfiguration ]_vars

\* ------------------------------------------- claims about partial fallback
\* Exactly one of the two fallback variables is set, or exactly one of them
\* is set to more than white space.
LoneFallback(e) ==
  \/ NonEmpty(e["TELEGRAM_WEBHOOK_SECRET"]) # NonEmpty(e["TELEGRAM_BOT_TOKEN"])
  \/ NonBlank(e["TELEGRAM_WEBHOOK_SECRET"]) # NonBlank(e["TELEGRAM_BOT_TOKEN"])

\* The error getTelegramSecrets() raises when nothing at all is configured.
NothingConfiguredError(e) ==
  IF ProductionFlag(e)
  THEN Err("ConfigError", "TELEGRAM_SECRET_ARN is required in production")
  ELSE Err("SecretNotFoundError", "Telegram secrets not fully configured")

C19_AsStated == Cardinality(Outstanding) <= 1

\* Attempt a had been started, and its fetch not answered, when
\* clearTelegramSecretCache() was last called.
InFlightAtClear(a) ==
  cleared /\ a <= clearedAt /\ attempts[a].pc = "awaitSend"

\* C20 as stated: the completion of an attempt that was in flight when
\* clearTelegramSecretCache() was called leaves cachedSecrets as it was.
C20_AsStated ==
  [][ \A a \in AttemptIds :
        (InFlightAtClear(a) /\ Settles(a)) => cachedSecrets' = cachedSecrets ]_vars

\* ------------------------------------------------ claims about the getters
GetterIds == 1..Len(getterCalls)

\* Field fn of a resolution's pair; a failure stays the failure it is.
ProjectionOf(r, fn) ==
  IF r.value # None THEN Fulfilled(r.value[1][fn]) ELSE r

\* Both getters have been called, once each.
BothGettersCalled ==
  /\ Len(getterCalls) = 2
  /\ getterCalls[1].fn # getterCalls[2].fn

SharedResolution ==
  /\ BothGettersCalled
  /\ getterCalls[2].from.branch \in {"joined", "cached"}

FirstResponse5xx ==
  /\ Len(send.results) >= 1
  /\ send.results[1].kind = "response"
  /\ send.results[1].statusCode >= 500

\* C17 as stated: when the first request has come back, a second request has
\* been issued if its response had a 5xx status and none otherwise; at most
\* two requests are issued, and the outcome of a second one is the outcome
\* of sendMessage().
C17_AsStated ==
  /\ send.requests <= 2
  /\ Len(send.results) >= 1 => (send.requests = 2 <=> FirstResponse5xx)
  /\ Len(send.results) = 2 =>
       send.pc = "done" /\ send.outcome = ExecResult(send.results[2])

\* C17 for the responses whose body is a JSON object: there the retry is
\* taken exactly on a 5xx status; nothing else is retried, at most two
\* requests are issued, and the second outcome is final.
C17_RetryOnParsedStatus ==
  /\ send.requests <= 2
  /\ Len(send.results) >= 1 =>
       (send.requests = 2 <=>
          FirstResponse5xx /\ send.results[1].body \in {"okTrue", "okFalse"})
  /\ Len(send.results) = 2 =>
       send.pc = "done" /\ send.outcome = ExecResult(send.results[2])

\* ------------------------------------------------ claims about the handler
\* The ARN, or both fallbacks, are set to more than white space.
SourceConfigured(e) ==
  \/ NonBlank(e["TELEGRAM_SECRET_ARN"])
  \/ NonBlank(e["TELEGRAM_WEBHOOK_SECRET"]) /\ NonBlank(e["TELEGRAM_BOT_TOKEN"])

\* C13: hasConfiguredSecretEnv() is true exactly when the ARN is non-empty
\* after trimming or both fallbacks are; this holds of the function on the
\* configuration of every state and of every result the handler got from it.
C13_HasConfiguredSecretEnv ==
  /\ HasConfiguredSecretEnv(env) = SourceConfigured(env)
  /\ handler.configured # None => handler.configured[1] = SourceConfigured(env)

\* C13 witness: with only TELEGRAM_BOT_TOKEN set the handler's call of
\* hasConfiguredSecretEnv() returned false.
C13_Witness ==
  /\ env["TELEGRAM_SECRET_ARN"] = None
  /\ env["TELEGRAM_WEBHOOK_SECRET"] = None
  /\ env["TELEGRAM_BOT_TOKEN"] = Some(<<"t">>)
  /\ handler.configured = Some(FALSE)
  /\ handler.pc = "returned"

\* The invocation has returned after the secrets could not be had: the
\* configuration names no source in production (where getTelegramSecrets()
\* throws ConfigError), or the handler's getTelegramSecrets() call failed.
ConfigErrorSituation ==
  handler.pc = "returned" /\ handler.configured = Some(FALSE)

ResolutionFailed ==
  /\ handler.pc = "returned"
  /\ handler.jit # NoCall
  /\ Awaited(handler.jit).error # None

\* C15 as stated: the response to every such invocation is the same, status
\* 500 with the one message the handler has for a failed resolution,
\* whichever of ConfigError, SecretNotFoundError and SecretMalformedError
\* the situation is.
C15_AsStated ==
  (ConfigErrorSituation \/ ResolutionFailed) =>
    handler.response = Some(HttpError(500, "Bot token not configured"))

\* C15 for the status alone, and for the failures the handler's own call
\* meets: the status is 500 in every such invocation, and the message is
\* the same for every error getTelegramSecrets() rejects with.
C15_Status500 ==
  /\ (ConfigErrorSituation \/ ResolutionFailed) =>
       handler.response # None /\ handler.response[1].statusCode = 500
  /\ ResolutionFailed =>
       handler.response = Some(HttpError(500, "Bot token not configured"))

\* C16: an invocation that got a non-empty botToken returns status 200,
\* whatever the body is and however the send ends; a response has status
\* 200 or 500, and 500 only when no source is configured in production or
\* getTelegramSecrets() failed, in which case the handler has no botToken.
C16_TokenThen200 ==
  handler.response # None =>
    /\ handler.pc = "returned"
    /\ handler.response[1].statusCode \in {200, 500}
    /\ handler.botToken # <<>> => handler.response[1].statusCode = 200
    /\ handler.response[1].statusCode = 500 =>
         /\ handler.botToken = <<>>
         /\ ConfigErrorSituation \/ ResolutionFailed

\* C16 witness: the handler had a botToken, the update carried a message,
\* the Telegram send failed, and the response is 200.
C16_Witness ==
  /\ handler.pc = "returned"
  /\ handler.botToken # <<>>
  /\ handler.body = "message"
  /\ send.pc = "done"
  /\ send.outcome.error # None
  /\ handler.response = Some(HttpOk("Webhook processed (send failure)"))

----------------------------------------------------------------------------
\* Steps of the handler, by the position it leaves and the one it reaches.
IsPrefetchStep == handler.pc = "prefetch" /\ handler'.pc = "resolve"

IsResolveStep == handler.pc = "resolve" /\ handler'.pc = "awaitSecrets"

IsResumeStep == handler.pc = "awaitSecrets" /\ handler'.pc # "awaitSecrets"

\* C21: within one handler invocation the prefetch call and the just-in-time
\* call share one resolution.  The just-in-time call never starts a store
\* fetch and never starts an attempt after a prefetch call; with an ARN
\* configured it joins the attempt the prefetch call started, or reads the
\* cache the prefetch call read.  So an invocation sends at most once: only
\* its prefetch step can.  When the prefetch call was rejected the handler
\* still returns a response, the 500 of the missing bot token.
C21_PrefetchShared ==
  [][/\ IsPrefetchStep => SendCount' <= SendCount + 1
     /\ IsResolveStep =>
          /\ SendCount' = SendCount
          /\ handler.prefetch # NoCall => Len(attempts') = Len(attempts)
          /\ (handler.prefetch # NoCall /\ ArnConfigured(env)) =>
               /\ handler.prefetch.branch = "started" =>
                    /\ handler'.jit.branch = "joined"
                    /\ handler'.jit.att = handler.prefetch.att
               /\ handler.prefetch.branch = "joined" =>
                    /\ handler'.jit.branch = "joined"
                    /\ handler'.jit.att = handler.prefetch.att
               /\ handler.prefetch.branch = "cached" =>
                    handler'.jit = handler.prefetch
     /\ (handler' # handler /\ ~IsPrefetchStep) => SendCount' = SendCount
     /\ (IsResumeStep /\ PrefetchCatch # <<>>) =>
          /\ handler'.pc = "returned"
          /\ handler'.response = Some(HttpError(500, "Bot token not configured"))
    ]_vars

\* The first invocation started on an empty cache with an ARN configured:
\* its prefetch call started the only attempt, the just-in-time call joined
\* it, the store fetch failed, and the handler returned 500 after the
\* warning of the prefetch call.
C21_Witness ==
  /\ handler.invocations = 1
  /\ handler.pc = "returned"
  /\ ArnConfigured(env)
  /\ handler.prefetch.branch = "started"
  /\ handler.jit.branch = "joined"
  /\ handler.jit.att = handler.prefetch.att
  /\ SendCount = 1
  /\ Len(attempts) = 1
  /\ attempts[1].outcome.error # None
  /\ handler.log = <<"Lambda invoked", "Failed to prefetch Telegram secrets",
                     "Missing Telegram bot token">>
  /\ handler.response = Some(HttpError(500, "Bot token not configured"))

----------------------------------------------------------------------------
\* The pair of trimmed fields of a payload with both fields usable.
FieldsOf(text) ==
  [webhookSecret |-> Trim(text.members["webhookSecret"].str),
   botToken |-> Trim(text.members["botToken"].str)]

\* The store answered attempt a with a payload that has both fields usable.
AnsweredWellFormed(a) == AnsweredWithText(a) /\ ~Malformed(TextOf(a))

\* C22: with an ARN configured (non-blank) the fallback values are never
\* used.  A call on the empty cache starts an attempt that sends to the
\* store and writes nothing to the cache, whatever the fallback strings are;
\* every attempt is a store attempt; an attempt whose fetch was rejected or
\* answered without a usable payload has failed; a pair an attempt produced
\* or the cache holds is the pair of the store's payload.
C22_RemoteOnly ==
  /\ [][ (IsCall /\ CacheEmpty /\ NonBlank(env["TELEGRAM_SECRET_ARN"])) =>
           /\ Len(attempts') = Len(attempts) + 1
           /\ NewAttempt.path = "arn"
           /\ NewAttempt.pc = "awaitSend"
           /\ SendCount' = SendCount + 1
           /\ cachedSecrets' = None ]_vars
  /\ [](NonBlank(env["TELEGRAM_SECRET_ARN"]) =>
          /\ \A a \in AttemptIds :
               /\ attempts[a].path = "arn"
               /\ (attempts[a].answer # None /\ ~AnsweredWellFormed(a)) =>
                    /\ attempts[a].outcome.value = None
                    /\ attempts[a].outcome.error # None
               /\ attempts[a].outcome.value # None =>
                    /\ AnsweredWellFormed(a)
                    /\ attempts[a].outcome.value[1] = FieldsOf(TextOf(a))
          /\ cachedSecrets # None =>
               \E a \in AttemptIds :
                 /\ AnsweredWellFormed(a)
                 /\ cachedSecrets[1] = FieldsOf(TextOf(a)))

\* C22 witness: an ARN and both fallback strings are configured, the store
\* call was rejected, the callers were delivered the error and nothing is
\* cached.
C22_Witness ==
  /\ NonBlank(env["TELEGRAM_SECRET_ARN"])
  /\ FallbacksConfigured(env)
  /\ \E a \in AttemptIds :
       /\ attempts[a].answer # None
       /\ attempts[a].answer[1].rejected
       /\ Delivered(a).error # None
  /\ cachedSecrets = None
  /\ SendCount >= 1

----------------------------------------------------------------------------
\* The step starts an invocation of the handler.
IsInvokeStep == handler'.invocations = handler.invocations + 1

\* C23: in production with no source configured (no non-blank ARN and not
\* both fallbacks non-blank) the step that starts an invocation also ends
\* it, with status 500 and 'Secret not configured'; it makes no
\* getTelegramSecrets() call, starts no attempt, sends nothing to the store
\* and leaves cachedSecrets and inFlight as they were; the invocation has
\* made no call when it has returned.
C23_FailFast ==
  /\ [][ (IsInvokeStep /\ ProductionFlag(env) /\ ~SourceConfigured(env)) =>
           /\ handler'.pc = "returned"
           /\ handler'.response = Some(HttpError(500, "Secret not configured"))
           /\ handler'.prefetch = NoCall
           /\ handler'.jit = NoCall
           /\ budget' = budget
           /\ lastCall' = lastCall
           /\ attempts' = attempts
           /\ SendCount' = SendCount
           /\ cachedSecrets' = cachedSecrets
           /\ inFlight' = inFlight ]_vars
  /\ []((handler.invocations > 0 /\ ProductionFlag(env) /\ ~SourceConfigured(env)) =>
          /\ handler.pc = "returned"
          /\ handler.jit = NoCall
          /\ attempts = <<>>
          /\ budget = 2 * MaxInvocations)

\* C23 witness: NODE_ENV is "Production", only one fallback is set; the
\* second invocation has returned 500 like the first, and no attempt exists.
C23_Witness ==
  /\ ProductionFlag(env)
  /\ env["TELEGRAM_SECRET_ARN"] = Some(<<" ">>)
  /\ env["TELEGRAM_BOT_TOKEN"] = Some(<<"t">>)
  /\ env["TELEGRAM_WEBHOOK_SECRET"] = None
  /\ handler.invocations = 2
  /\ handler.pc = "returned"
  /\ handler.response = Some(HttpError(500, "Secret not configured"))
  /\ handler.log = <<"Lambda invoked", MissingSourceLine>>
  /\ attempts = <<>>
  /\ cachedSecrets = None
  /\ inFlight = 0

----------------------------------------------------------------------------
\* Attempt a has sent to the store and has no answer yet.
AwaitingStore(a) ==
  /\ a \in AttemptIds
  /\ attempts[a].path = "arn"
  /\ attempts[a].answer = None

\* The promise of attempt a has not yet settled for the calls that hold it.
Suspended(a) == a \in AttemptIds /\ ~Delivered(a).settled

\* C24: the calls attached to an attempt stay suspended for ever only if
\* the attempt's store fetch never returns, and when every store fetch
\* returns the in-flight slot is empty again after every time it is set.
C24_CallsComplete ==
  /\ \A a \in 1..MaxLiveCalls :
       []<>(~AwaitingStore(a)) => []<>(~Suspended(a))
  /\ (\A a \in 1..MaxLiveCalls : []<>(~AwaitingStore(a))) =>
       (inFlight # 0 ~> inFlight = 0)

\* C24 witness: a store fetch with two callers attached was answered with
\* an error, the error was delivered and the slot is empty.
C24_Witness ==
  /\ Len(attempts) >= 1
  /\ attempts[1].path = "arn"
  /\ attempts[1].callers = 2
  /\ attempts[1].answer # None
  /\ Delivered(1).error # None
  /\ inFlight = 0

----------------------------------------------------------------------------
\* C25: hasConfiguredSecretEnv() agrees with the branch getTelegramSecrets()
\* takes on the empty cache under the same configuration: it is false
\* exactly when the call takes the nothing-configured branch (no store
\* fetch, no fallback pair, the error of NothingConfiguredError); and when it
\* is true no attempt fails with ConfigError.
C25_GuardAgreesWithResolver ==
  /\ [][ (IsCall /\ CacheEmpty) =>
           /\ Len(attempts') = Len(attempts) + 1
           /\ (~HasConfiguredSecretEnv(env)) <=> (NewAttempt.path = "none")
           /\ (~HasConfiguredSecretEnv(env)) <=>
                (NewAttempt.outcome = Rejected(NothingConfiguredError(env))) ]_vars
  /\ [](HasConfiguredSecretEnv(env) =>
          \A a \in AttemptIds :
            attempts[a].outcome.error # None =>
              attempts[a].outcome.error[1].name # "ConfigError")

\* C25 witness: in production with a blank ARN and one fallback,
\* hasConfiguredSecretEnv() is false and the call has failed with ConfigError
\* on the nothing-configured branch.
C25_Witness ==
  /\ ProductionFlag(env)
  /\ env["TELEGRAM_SECRET_ARN"] = Some(<<" ">>)
  /\ env["TELEGRAM_WEBHOOK_SECRET"] = Some(<<" ", "w">>)
  /\ env["TELEGRAM_BOT_TOKEN"] = None
  /\ ~HasConfiguredSecretEnv(env)
  /\ Len(attempts) >= 1
  /\ attempts[1].path = "none"
  /\ Delivered(1).error # None
  /\ Delivered(1).error[1].name = "ConfigError"

----------------------------------------------------------------------------
\* The value is an object with the keys webhookSecret and botToken only.
TwoFields(v) == DOMAIN v = {"webhookSecret", "botToken"}

\* C27: an attempt the store answered with a JSON object whose webhookSecret
\* and botToken are strings, non-empty after trimming, has succeeded with a
\* value of exactly those two keys, each the payload's string with the white
\* space at its ends removed; the step in which it settles writes that
\* value, with those two keys only, to the cache.
C27_ExactlyTwoTrimmedFields ==
  /\ [](\A a \in AttemptIds :
          AnsweredWellFormed(a) =>
            /\ attempts[a].outcome.error = None
            /\ attempts[a].outcome.value # None
            /\ TwoFields(attempts[a].outcome.value[1])
            /\ attempts[a].outcome.value[1].webhookSecret =
                 Trim(TextOf(a).members["webhookSecret"].str)
            /\ attempts[a].outcome.value[1].botToken =
                 Trim(TextOf(a).members["botToken"].str))
  /\ [][ \A a \in AttemptIds :
           (Settles(a) /\ AnsweredWellFormed(a)') =>
             /\ cachedSecrets' = attempts'[a].outcome.value
             /\ TwoFields(cachedSecrets'[1]) ]_vars
  /\ [](cachedSecrets # None => TwoFields(cachedSecrets[1]))

\* C27 witness: the payload had a third key besides the two fields; the
\* callers were delivered the two fields and the cache holds just them.
C27_Witness ==
  \E a \in AttemptIds :
    /\ AnsweredWellFormed(a)
    /\ "extra" \in DOMAIN TextOf(a).members
    /\ Delivered(a) = Fulfilled(FieldsOf(TextOf(a)))
    /\ cachedSecrets = Some(FieldsOf(TextOf(a)))

\* A payload whose fields carry white space at both ends was delivered
\* trimmed.
C27_TrimmedReached ==
  \E a \in AttemptIds :
    /\ AnsweredWellFormed(a)
    /\ TextOf(a).members["botToken"].str = <<" ", "t", " ">>
    /\ Delivered(a).value # None
    /\ Delivered(a).value[1].botToken = <<"t">>

----------------------------------------------------------------------------
\* ----------------------------------------- claims about what tells secrets
\* A run that differs only in the secret values: every secret string that
\* holds more than white space is replaced by another one; strings of white
\* space, values that are not strings and absent values stay as they are.
RedactString(x) == IF Trim(x) = <<>> THEN x ELSE <<"x">>

RedactText(text) ==
  IF text.syntax # "object" THEN text
  ELSE [text EXCEPT !.members =
          [k \in DOMAIN text.members |->
             IF text.members[k].type = "string"
             THEN [text.members[k] EXCEPT !.str = RedactString(@)]
             ELSE text.members[k]]]

RedactResp(resp) ==
  IF resp.SecretString = None THEN resp
  ELSE [resp EXCEPT !.SecretString = Some(RedactText(resp.SecretString[1]))]

RedactEnv(e) ==
  [k \in EnvVars |->
     IF k \in {"TELEGRAM_WEBHOOK_SECRET", "TELEGRAM_BOT_TOKEN"} /\ e[k] # None
     THEN Some(RedactString(e[k][1])) ELSE e[k]]

\* What an outcome tells as status: whether it is settled, whether it is a
\* success, and the error.
StatusOf(out) ==
  [settled |-> out.settled, succeeded |-> out.value # None, error |-> out.error]

\* The response and the log lines of an invocation that has returned, from
\* what is not a secret value: the result of the configuration check,
\* whether the resolution failed, the kind of the body and whether the send
\* failed.
StatusExpected ==
  LET failed == Awaited(handler.jit).error # None
      start == IF handler.prefetch # NoCall /\ failed
               THEN <<"Lambda invoked", "Failed to prefetch Telegram secrets">>
               ELSE <<"Lambda invoked">>
  IN IF handler.configured = Some(FALSE)
     THEN [response |-> HttpError(500, "Secret not configured"),
           log |-> <<"Lambda invoked", MissingSourceLine>>]
     ELSE IF failed
     THEN [response |-> HttpError(500, "Bot token not configured"),
           log |-> Append(start, "Missing Telegram bot token")]
     ELSE IF handler.body \in {"absent", "unparsable"}
     THEN [response |-> HttpOk("Webhook processed (invalid JSON)"),
           log |-> Append(start, "Invalid JSON payload")]
     ELSE IF handler.body = "badStructure"
     THEN [response |-> HttpOk("Webhook processed (invalid structure)"),
           log |-> Append(start, "Invalid webhook structure")]
     ELSE IF handler.body = "noMessage"
     THEN [response |-> HttpOk("Webhook processed (non-message update)"),
           log |-> Append(start, "Non-message update ignored")]
     ELSE IF send.outcome.error # None
     THEN [response |-> HttpOk("Webhook processed (send failure)"),
           log |-> Append(start, "Failed to send Telegram message")]
     ELSE [response |-> HttpOk("Webhook processed successfully"), log |-> start]

\* C26: secret values do not influence the status information.  Taking
\* "differ only in the secret values" as: the store's payload fields and the
\* fallback strings that hold a value hold another value (a blank or
\* ill-typed field is not a secret value, it is what C8 and C14 reject).
\* The status of every attempt (settled, succeeded, the error with its
\* name and message) is the one the run with the other values has; so is
\* the result of the configuration check; and the response and the log
\* lines of an invocation that has returned are those fixed by what is not
\* a secret value.
C26_SecretsDoNotInfluenceStatus ==
  /\ \A a \in AttemptIds :
       /\ attempts[a].answer # None =>
            StatusOf(attempts[a].outcome)
              = StatusOf(ExecAfterSend(RedactResp(attempts[a].answer[1])))
       /\ attempts[a].path # "arn" =>
            StatusOf(attempts[a].outcome) = StatusOf(ExecLocal(RedactEnv(env)))
  /\ HasConfiguredSecretEnv(env) = HasConfiguredSecretEnv(RedactEnv(env))
  /\ ArnConfigured(env) = ArnConfigured(RedactEnv(env))
  /\ handler.pc = "returned" =>
       /\ handler.response = Some(StatusExpected.response)
       /\ handler.log = StatusExpected.log

\* C26 witness: the resolution gave the bot token "s" from the store, the
\* send failed, and the invocation returned with the lines and the response
\* of a failed send.
C26_Witness ==
  /\ handler.pc = "returned"
  /\ handler.botToken = <<"s">>
  /\ handler.jit.att # 0
  /\ attempts[handler.jit.att].path = "arn"
  /\ send.outcome.error # None
  /\ handler.log = <<"Lambda invoked", "Failed to send Telegram message">>
  /\ handler.response = Some(HttpOk("Webhook processed (send failure)"))

\* The same invocation in a run with the bot token "t".
C26_OtherValueReached ==
  /\ handler.pc = "returned"
  /\ handler.botToken = <<"t">>
  /\ handler.jit.att # 0
  /\ attempts[handler.jit.att].path = "arn"
  /\ send.outcome.error # None
  /\ handler.log = <<"Lambda invoked", "Failed to send Telegram message">>
  /\ handler.response = Some(HttpOk("Webhook processed (send failure)"))

----------------------------------------------------------------------------
\* ------------------------------------------ claims about the BrowserService
\* The step is a call of close(), of a page operation.
IsCloseStep == service'.calls = service.calls + 1 /\ service'.op = "close"

IsPageOperationStep ==
  service'.calls = service.calls + 1 /\ service'.op \in PageOperations

AllReleased(s) == ~s.page /\ ~s.context /\ ~s.browser

\* C28 as stated: every call of close(), whatever the calls before it and
\* whichever of the three close() calls of Playwright throws, returns
\* without throwing and leaves page, context and browser null.
C28_AsStated ==
  [][ IsCloseStep =>
        /\ service'.result = "returned"
        /\ AllReleased(service') ]_vars

\* What holds of close(): it returns without throwing in every state, also
\* on a new service and after another close(); when none of the close()
\* calls of Playwright throws the three references are null afterwards;
\* when one throws the error is logged, and that reference and the ones
\* after it stay as they were.
C28_CloseNeverThrows ==
  [][ IsCloseStep =>
        /\ service'.result = "returned"
        /\ ~service'.cleanupError => AllReleased(service')
        /\ service'.cleanupError =>
             /\ ~AllReleased(service')
             /\ service'.browser = service.browser ]_vars

\* close() has been called again after a close() that logged an error, or
\* on a new service, and has returned.
C28_RepeatedReached ==
  /\ service.op = "close"
  /\ service.result = "returned"
  /\ service.closeCalls >= 2
  /\ ~AllReleased(service)

\* C29 as stated: a page operation called before initialize(), after a
\* failed initialize() or after close() rejects with 'Browser not
\* initialized. Call initialize() first.' and makes no Playwright call.
C29_AsStated ==
  [][ (IsPageOperationStep /\ service.phase \in {"new", "initFailed", "closed"}) =>
        /\ service'.result = "notInitialized"
        /\ ~service'.touched ]_vars

\* What holds of the guards: a page operation called while this.page is null
\* rejects with that message and makes no Playwright call; this.page is
\* null on a new service, after an initialize() that failed on a service
\* that had no page, and after a close() that logged no error.
C29_GuardsOnNullPage ==
  /\ [][ (IsPageOperationStep /\ ~service.page) =>
           /\ service'.result = "notInitialized"
           /\ ~service'.touched
           /\ service'.page = service.page ]_vars
  /\ [](service.phase = "new" => ~service.page)
  /\ []((service.op = "close" /\ ~service.cleanupError) => ~service.page)

\* A page operation was called after a close() whose page.close() threw, and
\* went on to call Playwright.
C29_TouchedAfterClose ==
  /\ service.phase = "closed"
  /\ service.op \in PageOperations
  /\ service.touched

----------------------------------------------------------------------------
\* -------------------------------------- claims about runBrowserAutomation
\* runBrowserAutomation() is over: its promise has settled, or the process
\* has ended.
RunOver == run.pc \in {"finished", "exited"}

\* C30 as stated: whenever runBrowserAutomation() is over, close() has been
\* called on its BrowserService (by its finally block, or at least inside
\* initialize()), whether the run succeeded or failed and wherever it
\* failed.
C30_AsStated == RunOver => service.closeCalls >= 1

\* What holds of the run: a failure inside the processing of a pickup or of
\* a return station never reaches the outer catch block; a run that
\* reaches the finally block calls close() exactly once there; and the only
\* runs that are over without that call are those in which the outer catch
\* block called a process.exit(1) that ended the process.
C30_ClosedUnlessExited ==
  /\ [][ run'.pc = "catch" =>
           \/ run.pc \in DOMAIN TopLevelSteps \cup {"initialize", "findPickups"}
           \/ run.pc = "catch" ]_vars
  /\ [](run.pc = "finished" => run.closeCalls = 1 /\ service.op = "close")
  /\ [](run.pc = "exited" =>
          run.closeCalls = 0 /\ run.failed /\ run.exit = "terminates")
  /\ []((RunOver /\ run.exit = "returns") => run.closeCalls = 1)

\* The run is over after navigateTo() failed: the process has ended, and
\* close() was never called, the browser is still set.
C30_ExitedUnclosed ==
  /\ run.pc = "exited"
  /\ service.op = "navigateTo"
  /\ service.result = "failed"
  /\ service.closeCalls = 0
  /\ service.browser

\* The run has finished with close() called after a failure inside the
\* processing of the second pickup station.
C30_ClosedAfterStationFailure ==
  /\ run.pc = "finished"
  /\ run.i = 2
  /\ ~run.failed
  /\ run.closeCalls = 1

====
